---- MODULE Spec2Model ----
(***************************************************************************)
(* Sorting visualizer (src/app.js): the seven animated sorting algorithms, *)
(* the startSort controller and the bar generation handlers.               *)
(*                                                                         *)
(* JavaScript runs every handler to completion; an async function gives    *)
(* the event loop back only at an `await new Promise(setTimeout ...)`.     *)
(* The call stack of the running sort is the variable `stack`: one record  *)
(* per active function with its position `pc` and its locals.  A frame     *)
(* whose pc is "await" or "markAwait" waits for its timer; only then (or   *)
(* when the stack is empty) can a user event be dispatched.                *)
(*                                                                         *)
(* Arrays are 0-based as in the source: functions on 0..N-1.               *)
(***************************************************************************)
EXTENDS Integers, Sequences, FiniteSets, TLC

\* ---------------------------------------------------------------- bounds
\* Largest bar count a user types into the bar-count input.
MaxBars == 4
\* container.clientHeight of a taller page, whose bars have heights 1..9.
TallContainerHeight == 13
\* container.clientHeight, in pixels (layout of the page).
ContainerHeight == 4
\* Widest window (window.innerWidth, in pixels) a resize event reports.
MaxScreenWidth == 110
\* Most bars on which a sort is started while user events interleave.
MaxBarsUI == 2

VARIABLES
    barCount,    \* value of the #barCount input: <<>> (empty) or <<n>>
    container,   \* heights of the .bar elements now in #bars-container
    sortBtn,     \* the Sort button: [disabled, textContent]
    algorithm,   \* value of the #algorithm select read by startSort
    stack,       \* call stack of the running sort, innermost frame last
    heights,     \* the algorithm's local array (getBarHeights() at start)
    bars,        \* style.height of the elements of the run's NodeList
    attached,    \* the run's NodeList elements are still in the container
    marked,      \* per index: number of markAsSorted calls in this run
    input,       \* the array the run started from
    status,      \* "idle", "running", "completed" or "error"
    oob,         \* an index outside [0, N) was used by this run
    trace,       \* the elementary operations of this run, in order
    speed,       \* value of the #speed slider, in milliseconds
    background,  \* style.background of body and of the two previews
    colorInputs, \* #startColor, #endColor and #gradientDirection values
    localStorage,\* the keys selectedTheme and customGradient: <<>> or <<v>>
    lastApplied  \* [background, reloaded]: the background the latest
                 \* changeTheme or applyCustomGradient applied, and whether
                 \* the page has been loaded again since

\* the state of the page that no sorting code writes
pageVars == <<speed, background, colorInputs, localStorage, lastApplied>>

vars == <<barCount, container, sortBtn, algorithm, stack, heights, bars,
          attached, marked, input, status, oob, trace, pageVars>>

\* ------------------------------------------------------- array helpers
Length(a) == Cardinality(DOMAIN a)

EmptyArray == [k \in 0..(-1) |-> 0]

Algorithms ==
    {"bubble", "selection", "insertion", "quick", "merge", "heap", "shell"}

\* a swap without a temporary: a[i] = a[j]; a[j] = a[i]
Swapped_noTemp(a, i, j) == [a EXCEPT ![i] = a[j]]

\* [a[i], a[j]] = [a[j], a[i]]
Swapped(a, i, j) == [a EXCEPT ![i] = a[j], ![j] = a[i]]

\* heights.slice(from, to): the elements from..to-1, re-indexed from 0
slice(a, from, to) == [k \in 0..(to - from - 1) |-> a[from + k]]

\* The number NaN, and a style.height that holds no length (""): both are
\* kept apart from the pixel counts, which are never negative.
NaN == -1
NoHeight == -2

\* parseInt(bar.style.height): "12px" gives 12, "" gives NaN
parseInt(h) == IF h = NoHeight THEN NaN ELSE h

\* Array.from(bars).map(bar => parseInt(bar.style.height))
getBarHeights(b) == [k \in DOMAIN b |-> parseInt(b[k])]

\* a > b, a < b, a <= b on numbers: false as soon as one side is NaN
Gt(a, b) == a # NaN /\ b # NaN /\ a > b
Lt(a, b) == a # NaN /\ b # NaN /\ a < b
Le(a, b) == a # NaN /\ b # NaN /\ a <= b

\* bar.style.height = `${height}px`; "NaNpx" is no length: the style
\* declaration drops the assignment and the bar keeps its height
updateBarHeight(b, k, height) == IF height = NaN THEN b ELSE [b EXCEPT ![k] = height]

\* The elementary operations a run performs, as entries of `trace`.
Compare(i, j) == <<"Compare", i, j>>
Swap(i, j) == <<"Swap", i, j>>
Overwrite(i, value) == <<"Overwrite", i, value>>
MarkFinal(i) == <<"MarkFinal", i>>

\* markAsSorted(bars[k]): the bar gets the "sorted" styling once more
markAsSorted(m, k) == [m EXCEPT ![k] = @ + 1]

\* Math.floor(containerHeight * 0.8) and Math.floor(containerHeight * 0.1)
maxHeight == (ContainerHeight * 8) \div 10
minHeight == ContainerHeight \div 10

\* Math.floor(Math.random() * (maxHeight - minHeight)) + minHeight
RandomHeights ==
    IF maxHeight > minHeight THEN minHeight..(maxHeight - 1) ELSE {minHeight}

\* the bars one generateBars call can append for numBars bars
GeneratedBars(numBars) == [0..(numBars - 1) -> RandomHeights]

\* ------------------------------------------------------- stack helpers
top == stack[Len(stack)]

At(fn, pc) == stack # <<>> /\ top.fn = fn /\ top.pc = pc

Goto(f) == stack' = [stack EXCEPT ![Len(stack)] = f]

Call(f, g) == stack' = Append([stack EXCEPT ![Len(stack)] = f], g)

Return == stack' = SubSeq(stack, 1, Len(stack) - 1)

\* a frame waits for a timer, or nothing runs: events can be dispatched
EventLoopFree == IF stack = <<>> THEN TRUE ELSE top.pc \in {"await", "markAwait"}

\* The effect of one step of the run on the array, the bars and the marks;
\* `used` are the indices with which the step addresses heights or bars.
\* `steps` are the operations it performs, in order.
Step(h2, b2, m2, used, steps) ==
    /\ heights' = h2
    /\ bars' = b2
    /\ container' = IF attached THEN b2 ELSE container
    /\ marked' = m2
    /\ oob' = (oob \/ \E k \in used : k \notin DOMAIN heights)
    /\ trace' = trace \o steps
    /\ UNCHANGED <<barCount, sortBtn, algorithm, attached, input, status, pageVars>>

NoWrite(used) == Step(heights, bars, marked, used, <<>>)

\* ------------------------------------------------------- speed slider
\* The range of the #speed slider, in milliseconds per step.
MinSpeed == 1
MaxSpeed == 200
Speeds == {MinSpeed, MaxSpeed}

\* parseInt(document.getElementById('speed').value)
getSpeed == parseInt(speed)

\* ------------------------------------------------------- theme state
\* A background `linear-gradient(direction, start 0%, end 100%)`.
Gradient(direction, start, end) ==
    [direction |-> direction, start |-> start, end |-> end]

\* const colorThemes = { name: { background: ... } }
colorThemes ==
    [default  |-> Gradient("135deg", "#667eea", "#764ba2"),
     ocean    |-> Gradient("135deg", "#0c4a6e", "#0891b2"),
     sunset   |-> Gradient("135deg", "#dc2626", "#f59e0b"),
     forest   |-> Gradient("135deg", "#166534", "#22c55e"),
     midnight |-> Gradient("135deg", "#1e1b4b", "#7c3aed"),
     coral    |-> Gradient("135deg", "#be185d", "#fb7185")]

ThemeNames == DOMAIN colorThemes

\* background.match(/#[a-fA-F0-9]{6}/g): the colours in order of appearance
matchColors(gradient) == <<gradient.start, gradient.end>>

\* What changeTheme(themeName) leaves behind, for a known theme name.
changeThemeBackground(themeName) ==
    [body |-> colorThemes[themeName],
     currentThemePreview |-> colorThemes[themeName],
     gradientPreview |-> colorThemes[themeName]]

changeThemeInputs(themeName) ==
    [colorInputs EXCEPT !.startColor = matchColors(colorThemes[themeName])[1],
                        !.endColor = matchColors(colorThemes[themeName])[2]]

\* The page after the first window.onload: nothing stored, so that
\* loadSavedTheme calls changeTheme('default').
PageInit ==
    /\ speed = MinSpeed
    /\ background = changeThemeBackground("default")
    /\ colorInputs = [startColor |-> "#667eea", endColor |-> "#764ba2",
                      gradientDirection |-> "135deg"]
    /\ localStorage = [selectedTheme |-> <<"default">>, customGradient |-> <<>>]
    /\ lastApplied = [background |-> colorThemes["default"], reloaded |-> TRUE]

\* ---------------------------------------------------------------- Init
\* window.onload: generateBars() with the bar count the input holds.
\* The idle page showing the bars `b`, with `n` in the bar count input.
InitFrom(n, b) ==
    /\ barCount = <<n>>
    /\ container = b
    /\ sortBtn = [disabled |-> FALSE, textContent |-> "Sort"]
    /\ algorithm = "bubble"
    /\ stack = <<>>
    /\ heights = EmptyArray
    /\ bars = EmptyArray
    /\ attached = FALSE
    /\ marked = EmptyArray
    /\ input = EmptyArray
    /\ status = "idle"
    /\ oob = FALSE
    /\ trace = <<>>
    /\ PageInit

Init == \E n \in 0..MaxBars : \E b \in GeneratedBars(n) : InitFrom(n, b)

\* Math.floor(Math.random() * (maxHeight - minHeight)) + minHeight in a
\* container of height TallContainerHeight
TallHeights ==
    (TallContainerHeight \div 10)..(((TallContainerHeight * 8) \div 10) - 1)

\* the array holding the values of the sequence s, from index 0
FromSeq(s) == [k \in 0..(Len(s) - 1) |-> s[k + 1]]

\* Bars of the taller page on which runs are followed step by step.
Scenarios ==
    {s \in {<<5, 3, 8, 1>>, <<9, 7, 5, 3, 1>>, <<4, 3, 2, 1>>, <<2, 2, 2>>} :
        \A k \in 1..Len(s) : s[k] \in TallHeights}

InitScenario ==
    \/ Init
    \/ \E s \in Scenarios : InitFrom(Len(s), FromSeq(s))

\* Bars whose style.height may have been cleared from outside the script
\* (an extension or the developer tools), so that parseInt yields NaN.
UnparsedBars(n) == [0..(n - 1) -> RandomHeights \cup {NoHeight}]

InitNaN == \E n \in 0..MaxBars : \E b \in UnparsedBars(n) : InitFrom(n, b)

\* ----------------------------------------------------------- startSort
\* The first frame of the selected algorithm, with its initial locals.
Entry(alg, a) ==
    CASE alg = "bubble"    -> [fn |-> "bubbleSort", pc |-> "outer", i |-> 0, j |-> 0]
      [] alg = "selection" -> [fn |-> "selectionSort", pc |-> "outer", i |-> 0, j |-> 0,
                               minIndex |-> 0]
      [] alg = "insertion" -> [fn |-> "insertionSort", pc |-> "outer", i |-> 1, j |-> 0,
                               currentHeight |-> 0]
      [] alg = "quick"     -> [fn |-> "quickSortHelper", pc |-> "entry", low |-> 0,
                               high |-> Length(a) - 1, pi |-> 0]
      [] alg = "merge"     -> [fn |-> "mergeSortHelper", pc |-> "entry", left |-> 0,
                               right |-> Length(a) - 1, mid |-> 0]
      [] alg = "heap"      -> [fn |-> "heapSort", pc |-> "build",
                               i |-> (Length(a) \div 2) - 1]
      [] alg = "shell"     -> [fn |-> "shellSort", pc |-> "gapLoop",
                               gap |-> Length(a) \div 2, i |-> 0, j |-> 0, temp |-> 0]

\* startSort without `sortBtn.disabled = true`
StartSort_buttonLeftEnabled(alg) ==
    /\ EventLoopFree
    /\ ~sortBtn.disabled
    /\ algorithm' = alg
    /\ sortBtn' = [disabled |-> FALSE, textContent |-> "Sorting..."]
    /\ heights' = getBarHeights(container)
    /\ bars' = container
    /\ attached' = TRUE
    /\ marked' = [k \in DOMAIN container |-> 0]
    /\ input' = getBarHeights(container)
    /\ status' = "running"
    /\ oob' = FALSE
    /\ trace' = <<>>
    /\ stack' = IF alg \in Algorithms
                THEN <<[fn |-> "startSort", pc |-> "switch"], Entry(alg, container)>>
                ELSE <<[fn |-> "startSort", pc |-> "switch"]>>
    /\ UNCHANGED <<barCount, container, pageVars>>

\* Click on the Sort button (a disabled button dispatches no click):
\* startSort up to the call of the algorithm.
StartSort(alg) ==
    /\ EventLoopFree
    /\ ~sortBtn.disabled
    /\ algorithm' = alg
    /\ sortBtn' = [disabled |-> TRUE, textContent |-> "Sorting..."]
    /\ heights' = getBarHeights(container)
    /\ bars' = container
    /\ attached' = TRUE
    /\ marked' = [k \in DOMAIN container |-> 0]
    /\ input' = getBarHeights(container)
    /\ status' = "running"
    /\ oob' = FALSE
    /\ trace' = <<>>
    /\ stack' = IF alg \in Algorithms
                THEN <<[fn |-> "startSort", pc |-> "switch"], Entry(alg, container)>>
                ELSE <<[fn |-> "startSort", pc |-> "switch"]>>
    /\ UNCHANGED <<barCount, container, pageVars>>

\* the completion sound is played but the button is never given back
startSort_finish_buttonKeptDisabled ==
    /\ Len(stack) = 1
    /\ At("startSort", "switch")
    /\ sortBtn' = sortBtn
    /\ status' = "completed"
    /\ stack' = <<>>
    /\ UNCHANGED <<barCount, container, algorithm, heights, bars, attached,
                   marked, input, oob, trace, pageVars>>

\* The awaited algorithm returned: completion sound, button re-enabled.
startSort_finish ==
    /\ Len(stack) = 1
    /\ At("startSort", "switch")
    /\ sortBtn' = [disabled |-> FALSE, textContent |-> "Sort"]
    /\ status' = "completed"
    /\ stack' = <<>>
    /\ UNCHANGED <<barCount, container, algorithm, heights, bars, attached,
                   marked, input, oob, trace, pageVars>>

\* The awaited algorithm threw: console.error, button re-enabled.
startSort_catch ==
    /\ At("startSort", "catch")
    /\ sortBtn' = [disabled |-> FALSE, textContent |-> "Sort"]
    /\ status' = "error"
    /\ stack' = <<>>
    /\ UNCHANGED <<barCount, container, algorithm, heights, bars, attached,
                   marked, input, oob, trace, pageVars>>

\* ---------------------------------------------------------- bubbleSort
\* for (let i = 0; i < heights.length; i++)
bubbleSort_outer ==
    /\ At("bubbleSort", "outer")
    /\ IF top.i < Length(heights)
       THEN Goto([top EXCEPT !.pc = "inner", !.j = 0])
       ELSE Goto([top EXCEPT !.pc = "mark", !.i = 0])
    /\ NoWrite({})

\* every pass runs to the end of the array: j < heights.length - 1
bubbleSort_inner_fullPass ==
    /\ At("bubbleSort", "inner")
    /\ IF top.j < Length(heights) - 1
       THEN /\ Goto([top EXCEPT !.pc = "await"])
            /\ NoWrite({top.j, top.j + 1})
       ELSE /\ Goto([top EXCEPT !.pc = "outer", !.i = @ + 1])
            /\ NoWrite({})

\* for (let j = 0; j < heights.length - i - 1; j++): highlight, then await
bubbleSort_inner ==
    /\ At("bubbleSort", "inner")
    /\ IF top.j < Length(heights) - top.i - 1
       THEN /\ Goto([top EXCEPT !.pc = "await"])
            /\ NoWrite({top.j, top.j + 1})
       ELSE /\ Goto([top EXCEPT !.pc = "outer", !.i = @ + 1])
            /\ NoWrite({})

\* the swap shown on bar j only: updateBarHeight(bars[j + 1], ...) missing
bubbleSort_resume_oneBarUpdated ==
    /\ At("bubbleSort", "await")
    /\ LET j  == top.j
           sw == Gt(heights[j], heights[j + 1])
           h2 == IF sw THEN Swapped(heights, j, j + 1) ELSE heights
           b2 == IF sw
                 THEN updateBarHeight(bars, j, h2[j])
                 ELSE bars
       IN  Step(h2, b2, marked, {j, j + 1},
                <<Compare(j, j + 1)>> \o (IF sw THEN <<Swap(j, j + 1)>> ELSE <<>>))
    /\ Goto([top EXCEPT !.pc = "inner", !.j = @ + 1])

\* after the timer: compare, swap when heights[j] > heights[j + 1]
bubbleSort_resume ==
    /\ At("bubbleSort", "await")
    /\ LET j  == top.j
           sw == Gt(heights[j], heights[j + 1])
           h2 == IF sw THEN Swapped(heights, j, j + 1) ELSE heights
           b2 == IF sw
                 THEN updateBarHeight(updateBarHeight(bars, j, h2[j]), j + 1, h2[j + 1])
                 ELSE bars
       IN  Step(h2, b2, marked, {j, j + 1},
                <<Compare(j, j + 1)>> \o (IF sw THEN <<Swap(j, j + 1)>> ELSE <<>>))
    /\ Goto([top EXCEPT !.pc = "inner", !.j = @ + 1])

\* for (let i = 0; i < bars.length; i++) markAsSorted(bars[i]); await
bubbleSort_mark ==
    /\ At("bubbleSort", "mark")
    /\ IF top.i < Length(bars)
       THEN /\ Goto([top EXCEPT !.pc = "markAwait"])
            /\ Step(heights, bars, markAsSorted(marked, top.i), {top.i},
                    <<MarkFinal(top.i)>>)
       ELSE /\ Return
            /\ NoWrite({})

bubbleSort_markResume ==
    /\ At("bubbleSort", "markAwait")
    /\ Goto([top EXCEPT !.pc = "mark", !.i = @ + 1])
    /\ NoWrite({})

bubbleSort ==
    \/ bubbleSort_outer
    \/ bubbleSort_inner
    \/ bubbleSort_resume
    \/ bubbleSort_mark
    \/ bubbleSort_markResume

\* ------------------------------------------------------- selectionSort
\* the scan starts at i + 2: the neighbour of i is never looked at
selectionSort_outer_skipsNeighbour ==
    /\ At("selectionSort", "outer")
    /\ IF top.i < Length(heights)
       THEN Goto([top EXCEPT !.pc = "inner", !.minIndex = top.i, !.j = top.i + 2])
       ELSE Return
    /\ NoWrite({})

\* for (let i = 0; i < heights.length; i++) { let minIndex = i;
selectionSort_outer ==
    /\ At("selectionSort", "outer")
    /\ IF top.i < Length(heights)
       THEN Goto([top EXCEPT !.pc = "inner", !.minIndex = top.i, !.j = top.i + 1])
       ELSE Return
    /\ NoWrite({})

\* for (let j = i + 1; j < heights.length; j++): highlight, then await;
\* after the loop: swap i and minIndex when they differ, markAsSorted(bars[i])
selectionSort_inner ==
    /\ At("selectionSort", "inner")
    /\ IF top.j < Length(heights)
       THEN /\ Goto([top EXCEPT !.pc = "await"])
            /\ NoWrite({top.j, top.minIndex})
       ELSE LET i  == top.i
                mi == top.minIndex
                h2 == IF mi # i THEN Swapped(heights, i, mi) ELSE heights
                b2 == IF mi # i
                      THEN updateBarHeight(updateBarHeight(bars, i, h2[i]), mi, h2[mi])
                      ELSE bars
            IN  /\ Goto([top EXCEPT !.pc = "outer", !.i = @ + 1])
                /\ Step(h2, b2, markAsSorted(marked, i), {i, mi},
                        (IF mi # i THEN <<Swap(i, mi)>> ELSE <<>>) \o <<MarkFinal(i)>>)

\* the comparison turned round: the larger value is selected
selectionSort_resume_picksLarger ==
    /\ At("selectionSort", "await")
    /\ Goto([top EXCEPT !.pc = "inner", !.j = @ + 1,
                        !.minIndex = IF Gt(heights[top.j], heights[top.minIndex])
                                     THEN top.j ELSE @])
    /\ Step(heights, bars, marked, {top.j, top.minIndex},
            <<Compare(top.j, top.minIndex)>>)

\* after the timer: if (heights[j] < heights[minIndex]) minIndex = j
selectionSort_resume ==
    /\ At("selectionSort", "await")
    /\ Goto([top EXCEPT !.pc = "inner", !.j = @ + 1,
                        !.minIndex = IF Lt(heights[top.j], heights[top.minIndex])
                                     THEN top.j ELSE @])
    /\ Step(heights, bars, marked, {top.j, top.minIndex},
            <<Compare(top.j, top.minIndex)>>)

selectionSort ==
    \/ selectionSort_outer
    \/ selectionSort_inner
    \/ selectionSort_resume

\* ------------------------------------------------------- insertionSort
\* currentHeight holds the index i, not the value heights[i]
insertionSort_outer_keepsIndex ==
    /\ At("insertionSort", "outer")
    /\ IF top.i < Length(heights)
       THEN /\ Goto([top EXCEPT !.pc = "while", !.currentHeight = top.i,
                                !.j = top.i - 1])
            /\ NoWrite({top.i})
       ELSE /\ Return
            /\ NoWrite({})

\* for (let i = 1; i < heights.length; i++) { currentHeight = heights[i];
insertionSort_outer ==
    /\ At("insertionSort", "outer")
    /\ IF top.i < Length(heights)
       THEN /\ Goto([top EXCEPT !.pc = "while", !.currentHeight = heights[top.i],
                                !.j = top.i - 1])
            /\ NoWrite({top.i})
       ELSE /\ Return
            /\ NoWrite({})

\* the loop also shifts a bar equal to the current one: >= for >
insertionSort_while_shiftsEqual ==
    /\ At("insertionSort", "while")
    /\ LET j   == top.j
           cmp == IF j >= 0 THEN <<Compare(j, top.i)>> ELSE <<>>
       IN  IF j >= 0 /\ ~Lt(heights[j], top.currentHeight)
           THEN /\ Goto([top EXCEPT !.pc = "await"])
                /\ Step(heights, bars, marked, {j}, cmp)
           ELSE LET h2 == [heights EXCEPT ![j + 1] = top.currentHeight]
                    b2 == updateBarHeight(bars, j + 1, top.currentHeight)
                IN  /\ Goto([top EXCEPT !.pc = "outer", !.i = @ + 1])
                    /\ Step(h2, b2, markAsSorted(marked, j + 1), {j + 1},
                            cmp \o <<Overwrite(j + 1, top.currentHeight),
                                     MarkFinal(j + 1)>>)

\* while (j >= 0 && heights[j] > currentHeight): highlight, then await;
\* after the loop: heights[j + 1] = currentHeight, markAsSorted(bars[j + 1])
insertionSort_while ==
    /\ At("insertionSort", "while")
    /\ LET j   == top.j
           cmp == IF j >= 0 THEN <<Compare(j, top.i)>> ELSE <<>>
       IN  IF j >= 0 /\ Gt(heights[j], top.currentHeight)
           THEN /\ Goto([top EXCEPT !.pc = "await"])
                /\ Step(heights, bars, marked, {j}, cmp)
           ELSE LET h2 == [heights EXCEPT ![j + 1] = top.currentHeight]
                    b2 == updateBarHeight(bars, j + 1, top.currentHeight)
                IN  /\ Goto([top EXCEPT !.pc = "outer", !.i = @ + 1])
                    /\ Step(h2, b2, markAsSorted(marked, j + 1), {j + 1},
                            cmp \o <<Overwrite(j + 1, top.currentHeight),
                                     MarkFinal(j + 1)>>)

\* after the timer: heights[j + 1] = heights[j]; j--
insertionSort_resume ==
    /\ At("insertionSort", "await")
    /\ LET j  == top.j
           h2 == [heights EXCEPT ![j + 1] = heights[j]]
           b2 == updateBarHeight(bars, j + 1, h2[j + 1])
       IN  Step(h2, b2, marked, {j, j + 1}, <<Overwrite(j + 1, heights[j])>>)
    /\ Goto([top EXCEPT !.pc = "while", !.j = @ - 1])

insertionSort ==
    \/ insertionSort_outer
    \/ insertionSort_while
    \/ insertionSort_resume

\* ----------------------------------------------------------- quickSort
\* if (low < high) { const pi = await partition(heights, bars, low, high);
quickSortHelper_entry ==
    /\ At("quickSortHelper", "entry")
    /\ IF top.low < top.high
       THEN /\ Call([top EXCEPT !.pc = "left"],
                    [fn |-> "partition", pc |-> "for", low |-> top.low,
                     high |-> top.high, pivot |-> heights[top.high],
                     i |-> top.low - 1, j |-> top.low])
            /\ NoWrite({top.high})
       ELSE /\ Return
            /\ NoWrite({})

\* await quickSortHelper(heights, bars, low, pi - 1)
quickSortHelper_left ==
    /\ At("quickSortHelper", "left")
    /\ Call([top EXCEPT !.pc = "right"],
            [fn |-> "quickSortHelper", pc |-> "entry", low |-> top.low,
             high |-> top.pi - 1, pi |-> 0])
    /\ NoWrite({})

\* the right part starts at the pivot: quickSortHelper(heights, bars, pi, high)
quickSortHelper_right_fromPivot ==
    /\ At("quickSortHelper", "right")
    /\ Call([top EXCEPT !.pc = "done"],
            [fn |-> "quickSortHelper", pc |-> "entry", low |-> top.pi,
             high |-> top.high, pi |-> 0])
    /\ NoWrite({})

\* await quickSortHelper(heights, bars, pi + 1, high)
quickSortHelper_right ==
    /\ At("quickSortHelper", "right")
    /\ Call([top EXCEPT !.pc = "done"],
            [fn |-> "quickSortHelper", pc |-> "entry", low |-> top.pi + 1,
             high |-> top.high, pi |-> 0])
    /\ NoWrite({})

quickSortHelper_done ==
    /\ At("quickSortHelper", "done")
    /\ Return
    /\ NoWrite({})

\* the pivot is left at high: the swap of i + 1 and high lost
partition_for_pivotNotPlaced ==
    /\ At("partition", "for")
    /\ IF top.j < top.high
       THEN /\ Goto([top EXCEPT !.pc = "await"])
            /\ NoWrite({top.j})
       ELSE LET i    == top.i
                high == top.high
                caller == stack[Len(stack) - 1]
            IN  /\ stack' = [SubSeq(stack, 1, Len(stack) - 1)
                                EXCEPT ![Len(stack) - 1] = [caller EXCEPT !.pi = i + 1]]
                /\ Step(heights, bars, markAsSorted(marked, i + 1), {i + 1, high},
                        <<MarkFinal(i + 1)>>)

\* for (let j = low; j < high; j++): highlight, then await; after the loop:
\* swap i + 1 and high, markAsSorted(bars[i + 1]), return i + 1
partition_for ==
    /\ At("partition", "for")
    /\ IF top.j < top.high
       THEN /\ Goto([top EXCEPT !.pc = "await"])
            /\ NoWrite({top.j})
       ELSE LET i    == top.i
                high == top.high
                h2   == Swapped(heights, i + 1, high)
                b2   == updateBarHeight(updateBarHeight(bars, i + 1, h2[i + 1]),
                                        high, h2[high])
                caller == stack[Len(stack) - 1]
            IN  /\ stack' = [SubSeq(stack, 1, Len(stack) - 1)
                                EXCEPT ![Len(stack) - 1] = [caller EXCEPT !.pi = i + 1]]
                /\ Step(h2, b2, markAsSorted(marked, i + 1), {i + 1, high},
                        <<Swap(i + 1, high), MarkFinal(i + 1)>>)

\* the test heights[j] < pivot for heights[j] <= pivot
partition_resume_strictlyLess ==
    /\ At("partition", "await")
    /\ LET j  == top.j
           i2 == IF Lt(heights[j], top.pivot) THEN top.i + 1 ELSE top.i
           sw == Lt(heights[j], top.pivot) /\ i2 # j
           h2 == IF sw THEN Swapped(heights, i2, j) ELSE heights
           b2 == IF sw
                 THEN updateBarHeight(updateBarHeight(bars, i2, h2[i2]), j, h2[j])
                 ELSE bars
       IN  /\ Step(h2, b2, marked, IF sw THEN {i2, j} ELSE {j},
                   <<Compare(j, top.high)>> \o (IF sw THEN <<Swap(i2, j)>> ELSE <<>>))
           /\ Goto([top EXCEPT !.pc = "for", !.i = i2, !.j = @ + 1])

\* after the timer: if (heights[j] <= pivot) { i++; if (i !== j) swap i, j }
partition_resume ==
    /\ At("partition", "await")
    /\ LET j  == top.j
           i2 == IF Le(heights[j], top.pivot) THEN top.i + 1 ELSE top.i
           sw == Le(heights[j], top.pivot) /\ i2 # j
           h2 == IF sw THEN Swapped(heights, i2, j) ELSE heights
           b2 == IF sw
                 THEN updateBarHeight(updateBarHeight(bars, i2, h2[i2]), j, h2[j])
                 ELSE bars
       IN  /\ Step(h2, b2, marked, IF sw THEN {i2, j} ELSE {j},
                   <<Compare(j, top.high)>> \o (IF sw THEN <<Swap(i2, j)>> ELSE <<>>))
           /\ Goto([top EXCEPT !.pc = "for", !.i = i2, !.j = @ + 1])

quickSort ==
    \/ quickSortHelper_entry
    \/ quickSortHelper_left
    \/ quickSortHelper_right
    \/ quickSortHelper_done
    \/ partition_for
    \/ partition_resume

\* ----------------------------------------------------------- mergeSort
\* if (left < right) { mid = Math.floor((left + right) / 2);
\*                     await mergeSortHelper(heights, bars, left, mid);
mergeSortHelper_entry ==
    /\ At("mergeSortHelper", "entry")
    /\ IF top.left < top.right
       THEN LET mid == (top.left + top.right) \div 2
            IN  Call([top EXCEPT !.pc = "second", !.mid = mid],
                     [fn |-> "mergeSortHelper", pc |-> "entry", left |-> top.left,
                      right |-> mid, mid |-> 0])
       ELSE Return
    /\ NoWrite({})

\* await mergeSortHelper(heights, bars, mid + 1, right)
mergeSortHelper_second ==
    /\ At("mergeSortHelper", "second")
    /\ Call([top EXCEPT !.pc = "merge"],
            [fn |-> "mergeSortHelper", pc |-> "entry", left |-> top.mid + 1,
             right |-> top.right, mid |-> 0])
    /\ NoWrite({})

\* the right slice taken one slot too early: heights.slice(mid, right)
mergeSortHelper_merge_sliceFromMid ==
    /\ At("mergeSortHelper", "merge")
    /\ Call([top EXCEPT !.pc = "done"],
            [fn |-> "merge", pc |-> "while", left |-> top.left, mid |-> top.mid,
             right |-> top.right,
             leftArray |-> slice(heights, top.left, top.mid + 1),
             rightArray |-> slice(heights, top.mid, top.right),
             i |-> 0, j |-> 0, k |-> top.left])
    /\ NoWrite(top.left..top.right)

\* await merge(heights, bars, left, mid, right): the two slices are copied
mergeSortHelper_merge ==
    /\ At("mergeSortHelper", "merge")
    /\ Call([top EXCEPT !.pc = "done"],
            [fn |-> "merge", pc |-> "while", left |-> top.left, mid |-> top.mid,
             right |-> top.right,
             leftArray |-> slice(heights, top.left, top.mid + 1),
             rightArray |-> slice(heights, top.mid + 1, top.right + 1),
             i |-> 0, j |-> 0, k |-> top.left])
    /\ NoWrite(top.left..top.right)

mergeSortHelper_done ==
    /\ At("mergeSortHelper", "done")
    /\ Return
    /\ NoWrite({})

\* while (i < leftArray.length && j < rightArray.length): highlight, await
merge_while ==
    /\ At("merge", "while")
    /\ IF top.i < Length(top.leftArray) /\ top.j < Length(top.rightArray)
       THEN /\ Goto([top EXCEPT !.pc = "await"])
            /\ NoWrite({top.k})
       ELSE /\ Goto([top EXCEPT !.pc = "drainLeft"])
            /\ NoWrite({})

\* the larger head is taken: leftArray[i] > rightArray[j] for <=
merge_resume_largerFirst ==
    /\ At("merge", "await")
    /\ LET k      == top.k
           goLeft == Gt(top.leftArray[top.i], top.rightArray[top.j])
           v      == IF goLeft THEN top.leftArray[top.i] ELSE top.rightArray[top.j]
           h2     == [heights EXCEPT ![k] = v]
           b2     == updateBarHeight(bars, k, h2[k])
       IN  /\ Step(h2, b2, markAsSorted(marked, k), {k},
                   <<Compare(top.left + top.i, top.mid + 1 + top.j),
                     Overwrite(k, v), MarkFinal(k)>>)
           /\ Goto([top EXCEPT !.pc = "while", !.k = @ + 1,
                               !.i = IF goLeft THEN @ + 1 ELSE @,
                               !.j = IF goLeft THEN @ ELSE @ + 1])

\* after the timer: the smaller head (the left one on a tie) goes to
\* heights[k]; markAsSorted(bars[k]); k++
merge_resume ==
    /\ At("merge", "await")
    /\ LET k      == top.k
           goLeft == Le(top.leftArray[top.i], top.rightArray[top.j])
           v      == IF goLeft THEN top.leftArray[top.i] ELSE top.rightArray[top.j]
           h2     == [heights EXCEPT ![k] = v]
           b2     == updateBarHeight(bars, k, h2[k])
       IN  /\ Step(h2, b2, markAsSorted(marked, k), {k},
                   <<Compare(top.left + top.i, top.mid + 1 + top.j),
                     Overwrite(k, v), MarkFinal(k)>>)
           /\ Goto([top EXCEPT !.pc = "while", !.k = @ + 1,
                               !.i = IF goLeft THEN @ + 1 ELSE @,
                               !.j = IF goLeft THEN @ ELSE @ + 1])

\* while (i < leftArray.length) { heights[k] = leftArray[i]; mark; i++; k++ }
merge_drainLeft ==
    /\ At("merge", "drainLeft")
    /\ IF top.i < Length(top.leftArray)
       THEN LET k  == top.k
                h2 == [heights EXCEPT ![k] = top.leftArray[top.i]]
                b2 == updateBarHeight(bars, k, h2[k])
            IN  /\ Step(h2, b2, markAsSorted(marked, k), {k},
                        <<Overwrite(k, h2[k]), MarkFinal(k)>>)
                /\ Goto([top EXCEPT !.i = @ + 1, !.k = @ + 1])
       ELSE /\ Goto([top EXCEPT !.pc = "drainRight"])
            /\ NoWrite({})

\* while (j < rightArray.length) { heights[k] = rightArray[j]; mark; j++; k++ }
merge_drainRight ==
    /\ At("merge", "drainRight")
    /\ IF top.j < Length(top.rightArray)
       THEN LET k  == top.k
                h2 == [heights EXCEPT ![k] = top.rightArray[top.j]]
                b2 == updateBarHeight(bars, k, h2[k])
            IN  /\ Step(h2, b2, markAsSorted(marked, k), {k},
                        <<Overwrite(k, h2[k]), MarkFinal(k)>>)
                /\ Goto([top EXCEPT !.j = @ + 1, !.k = @ + 1])
       ELSE /\ Return
            /\ NoWrite({})

mergeSort ==
    \/ mergeSortHelper_entry
    \/ mergeSortHelper_second
    \/ mergeSortHelper_merge
    \/ mergeSortHelper_done
    \/ merge_while
    \/ merge_resume
    \/ merge_drainLeft
    \/ merge_drainRight

\* ------------------------------------------------------------ heapSort
\* the build loop stops before the root: i > 0 for i >= 0
heapSort_build_skipsRoot ==
    /\ stack # <<>> /\ top.fn = "heapSort" /\ top.pc \in {"build", "buildNext"}
    /\ LET i == IF top.pc = "buildNext" THEN top.i - 1 ELSE top.i
       IN  IF i > 0
           THEN Call([top EXCEPT !.pc = "buildNext", !.i = i],
                     [fn |-> "heapify", pc |-> "entry", n |-> Length(heights),
                      i |-> i, largest |-> i])
           ELSE Goto([top EXCEPT !.pc = "extract", !.i = Length(heights) - 1])
    /\ NoWrite({})

\* for (let i = Math.floor(heights.length / 2) - 1; i >= 0; i--)
\*     await heapify(heights, bars, heights.length, i);
\* ("buildNext" is the loop's i-- after heapify returned)
heapSort_build ==
    /\ stack # <<>> /\ top.fn = "heapSort" /\ top.pc \in {"build", "buildNext"}
    /\ LET i == IF top.pc = "buildNext" THEN top.i - 1 ELSE top.i
       IN  IF i >= 0
           THEN Call([top EXCEPT !.pc = "buildNext", !.i = i],
                     [fn |-> "heapify", pc |-> "entry", n |-> Length(heights),
                      i |-> i, largest |-> i])
           ELSE Goto([top EXCEPT !.pc = "extract", !.i = Length(heights) - 1])
    /\ NoWrite({})

\* for (let i = heights.length - 1; i > 0; i--) { swap 0 and i;
\*     markAsSorted(bars[i]); await timer;   ("extractNext" is the loop's i--)
\* after the loop: markAsSorted(bars[0]), which throws when there is no bar
heapSort_extract ==
    /\ stack # <<>> /\ top.fn = "heapSort" /\ top.pc \in {"extract", "extractNext"}
    /\ LET i == IF top.pc = "extractNext" THEN top.i - 1 ELSE top.i
       IN  IF i > 0
           THEN LET h2 == Swapped(heights, 0, i)
                    b2 == updateBarHeight(updateBarHeight(bars, 0, h2[0]), i, h2[i])
                IN  /\ Goto([top EXCEPT !.pc = "await", !.i = i])
                    /\ Step(h2, b2, markAsSorted(marked, i), {0, i},
                            <<Swap(0, i), MarkFinal(i)>>)
           ELSE IF 0 \in DOMAIN bars
                THEN /\ Return
                     /\ Step(heights, bars, markAsSorted(marked, 0), {0},
                             <<MarkFinal(0)>>)
                ELSE /\ stack' = <<[fn |-> "startSort", pc |-> "catch"]>>
                     /\ NoWrite({0})

\* the heap not shrunk: heapify(heights, bars, i + 1, 0)
heapSort_resume_heapNotShrunk ==
    /\ At("heapSort", "await")
    /\ Call([top EXCEPT !.pc = "extractNext"],
            [fn |-> "heapify", pc |-> "entry", n |-> top.i + 1, i |-> 0,
             largest |-> 0])
    /\ NoWrite({})

\* after the timer: await heapify(heights, bars, i, 0)
heapSort_resume ==
    /\ At("heapSort", "await")
    /\ Call([top EXCEPT !.pc = "extractNext"],
            [fn |-> "heapify", pc |-> "entry", n |-> top.i, i |-> 0, largest |-> 0])
    /\ NoWrite({})

\* the right child compared with the parent instead of the largest so far
heapify_largest_rightVsParent(a, n, i) ==
    LET left  == 2 * i + 1
        right == 2 * i + 2
        l1    == IF left < n /\ Gt(a[left], a[i]) THEN left ELSE i
    IN  IF right < n /\ Gt(a[right], a[i]) THEN right ELSE l1

\* largest among i and its children left = 2i + 1, right = 2i + 2 below n
heapify_largest(a, n, i) ==
    LET left  == 2 * i + 1
        right == 2 * i + 2
        l1    == IF left < n /\ Gt(a[left], a[i]) THEN left ELSE i
    IN  IF right < n /\ Gt(a[right], a[l1]) THEN right ELSE l1

\* if (largest !== i) { highlight; await timer ...
heapify_entry ==
    /\ At("heapify", "entry")
    /\ LET largest == heapify_largest(heights, top.n, top.i)
           left    == 2 * top.i + 1
           right   == 2 * top.i + 2
           used    == {top.i} \cup (IF left < top.n THEN {left} ELSE {})
                              \cup (IF right < top.n THEN {right} ELSE {})
           l1      == IF left < top.n /\ Gt(heights[left], heights[top.i])
                      THEN left ELSE top.i
       IN  /\ IF largest # top.i
              THEN Goto([top EXCEPT !.pc = "await", !.largest = largest])
              ELSE Return
           /\ Step(heights, bars, marked, used,
                   (IF left < top.n THEN <<Compare(left, top.i)>> ELSE <<>>)
                   \o (IF right < top.n THEN <<Compare(right, l1)>> ELSE <<>>))

\* after the timer: swap i and largest; await heapify(heights, bars, n, largest)
heapify_resume ==
    /\ At("heapify", "await")
    /\ LET i  == top.i
           lg == top.largest
           h2 == Swapped(heights, i, lg)
           b2 == updateBarHeight(updateBarHeight(bars, i, h2[i]), lg, h2[lg])
       IN  /\ Step(h2, b2, marked, {i, lg}, <<Swap(i, lg)>>)
           /\ Call([top EXCEPT !.pc = "done"],
                   [fn |-> "heapify", pc |-> "entry", n |-> top.n, i |-> lg,
                    largest |-> lg])

heapify_done ==
    /\ At("heapify", "done")
    /\ Return
    /\ NoWrite({})

heapSort ==
    \/ heapSort_build
    \/ heapSort_extract
    \/ heapSort_resume
    \/ heapify_entry
    \/ heapify_resume
    \/ heapify_done

\* ----------------------------------------------------------- shellSort
\* the gap sequence stops before its last pass: gap > 1 for gap > 0
shellSort_gapLoop_noLastPass ==
    /\ At("shellSort", "gapLoop")
    /\ IF top.gap > 1
       THEN Goto([top EXCEPT !.pc = "iLoop", !.i = top.gap])
       ELSE Goto([top EXCEPT !.pc = "mark", !.i = 0])
    /\ NoWrite({})

\* for (let gap = Math.floor(n / 2); gap > 0; gap = Math.floor(gap / 2))
shellSort_gapLoop ==
    /\ At("shellSort", "gapLoop")
    /\ IF top.gap > 0
       THEN Goto([top EXCEPT !.pc = "iLoop", !.i = top.gap])
       ELSE Goto([top EXCEPT !.pc = "mark", !.i = 0])
    /\ NoWrite({})

\* for (let i = gap; i < n; i++) { temp = heights[i]; j = i;
shellSort_iLoop ==
    /\ At("shellSort", "iLoop")
    /\ IF top.i < Length(heights)
       THEN /\ Goto([top EXCEPT !.pc = "jLoop", !.temp = heights[top.i], !.j = top.i])
            /\ NoWrite({top.i})
       ELSE /\ Goto([top EXCEPT !.pc = "gapLoop", !.gap = @ \div 2])
            /\ NoWrite({})

\* for (j = i; j >= gap && heights[j - gap] > temp; j -= gap): highlight,
\* await; after the loop: heights[j] = temp
shellSort_jLoop ==
    /\ At("shellSort", "jLoop")
    /\ LET j   == top.j
           cmp == IF j >= top.gap THEN <<Compare(j - top.gap, top.i)>> ELSE <<>>
       IN  IF j >= top.gap /\ Gt(heights[j - top.gap], top.temp)
           THEN /\ Goto([top EXCEPT !.pc = "await"])
                /\ Step(heights, bars, marked, {j - top.gap}, cmp)
           ELSE LET h2 == [heights EXCEPT ![j] = top.temp]
                    b2 == updateBarHeight(bars, j, top.temp)
                IN  /\ Goto([top EXCEPT !.pc = "iLoop", !.i = @ + 1])
                    /\ Step(h2, b2, marked, {j, top.i},
                            cmp \o <<Overwrite(j, top.temp)>>)

\* after the timer: heights[j] = heights[j - gap]; j -= gap
shellSort_resume ==
    /\ At("shellSort", "await")
    /\ LET j  == top.j
           h2 == [heights EXCEPT ![j] = heights[j - top.gap]]
           b2 == updateBarHeight(bars, j, h2[j])
       IN  Step(h2, b2, marked, {j, j - top.gap}, <<Overwrite(j, heights[j - top.gap])>>)
    /\ Goto([top EXCEPT !.pc = "jLoop", !.j = @ - top.gap])

\* the cascade stops one bar early: i < n - 1
shellSort_mark_stopsEarly ==
    /\ At("shellSort", "mark")
    /\ IF top.i < Length(heights) - 1
       THEN /\ Goto([top EXCEPT !.pc = "markAwait"])
            /\ Step(heights, bars, markAsSorted(marked, top.i), {top.i},
                    <<MarkFinal(top.i)>>)
       ELSE /\ Return
            /\ NoWrite({})

\* for (let i = 0; i < n; i++) { markAsSorted(bars[i]); await timer }
shellSort_mark ==
    /\ At("shellSort", "mark")
    /\ IF top.i < Length(heights)
       THEN /\ Goto([top EXCEPT !.pc = "markAwait"])
            /\ Step(heights, bars, markAsSorted(marked, top.i), {top.i},
                    <<MarkFinal(top.i)>>)
       ELSE /\ Return
            /\ NoWrite({})

shellSort_markResume ==
    /\ At("shellSort", "markAwait")
    /\ Goto([top EXCEPT !.pc = "mark", !.i = @ + 1])
    /\ NoWrite({})

shellSort ==
    \/ shellSort_gapLoop
    \/ shellSort_iLoop
    \/ shellSort_jLoop
    \/ shellSort_resume
    \/ shellSort_mark
    \/ shellSort_markResume

\* ------------------------------------------------------ bar generation
\* window.innerWidth as reported to a handler
ScreenWidths == {MaxScreenWidth - 14, MaxScreenWidth}

Min(a, b) == IF a < b THEN a ELSE b
Max(a, b) == IF a > b THEN a ELSE b
Abs(a) == IF a < 0 THEN -a ELSE a

\* Math.floor(availableWidth / barWidth), per breakpoint
calculateOptimalBarCount(screenWidth) ==
    IF screenWidth <= 360 THEN (screenWidth - 40) \div 14
    ELSE IF screenWidth <= 480 THEN (screenWidth - 40) \div 16
    ELSE IF screenWidth <= 768 THEN (screenWidth - 60) \div 18
    ELSE Min(screenWidth - 100, 1200) \div 22

\* Math.max(5, Math.min(100, optimalCount)), also stored in the input
updateBarCountInput(screenWidth) ==
    Max(5, Min(100, calculateOptimalBarCount(screenWidth)))

\* The user edits the bar-count input (no handler runs).
TypeBarCount(v) ==
    /\ EventLoopFree
    /\ barCount # v
    /\ barCount' = v
    /\ UNCHANGED <<container, sortBtn, algorithm, stack, heights, bars,
                   attached, marked, input, status, oob, trace, pageVars>>

\* the running sort reads its values from the bars now on display
GenerateBars_liveHeights(screenWidth) ==
    /\ EventLoopFree
    /\ LET numBars == IF barCount = <<>>
                      THEN updateBarCountInput(screenWidth) ELSE barCount[1]
       IN  /\ barCount' = <<numBars>>
           /\ container' \in GeneratedBars(numBars)
    /\ attached' = FALSE
    /\ heights' = IF DOMAIN container' = DOMAIN heights THEN container' ELSE heights
    /\ UNCHANGED <<sortBtn, algorithm, stack, bars, marked, input,
                   status, oob, trace, pageVars>>

\* Click on "Generate New Bars": the container is emptied and numBars new
\* bar elements with random heights are appended.
\* numBars = barCount.value || updateBarCountInput()
GenerateBars(screenWidth) ==
    /\ EventLoopFree
    /\ LET numBars == IF barCount = <<>>
                      THEN updateBarCountInput(screenWidth) ELSE barCount[1]
       IN  /\ barCount' = <<numBars>>
           /\ container' \in GeneratedBars(numBars)
    /\ attached' = FALSE
    /\ UNCHANGED <<sortBtn, algorithm, stack, heights, bars, marked, input,
                   status, oob, trace, pageVars>>

\* window resize: the input gets the clamped optimal count; the bars are
\* regenerated when their number differs from it by more than 2.
HandleResize(screenWidth) ==
    /\ EventLoopFree
    /\ LET optimalCount == updateBarCountInput(screenWidth)
           currentBars  == Length(container)
       IN  /\ barCount' = <<optimalCount>>
           /\ IF Abs(currentBars - optimalCount) > 2
              THEN /\ container' \in GeneratedBars(optimalCount)
                   /\ attached' = FALSE
              ELSE UNCHANGED <<container, attached>>
    /\ UNCHANGED <<sortBtn, algorithm, stack, heights, bars, marked, input,
                   status, oob, trace, pageVars>>

\* -------------------------------------------------------- theme events
\* the variables of the bars and of the running sort
sortVars == <<barCount, container, sortBtn, algorithm, stack, heights, bars,
              attached, marked, input, status, oob, trace>>

\* The values of the #gradientDirection select and of the colour inputs the
\* user picks from.
Directions == {"135deg", "to right"}
PickedColors == {"#000000", "#ffffff"}

\* `linear-gradient(${direction}, ${startColor} 0%, ${endColor} 100%)`
InputGradient(inputs) ==
    Gradient(inputs.gradientDirection, inputs.startColor, inputs.endColor)

\* Click on a preset theme: changeTheme(themeName), themeName a known name.
ChangeTheme(themeName) ==
    /\ EventLoopFree
    /\ background' = changeThemeBackground(themeName)
    /\ colorInputs' = changeThemeInputs(themeName)
    /\ localStorage' = [localStorage EXCEPT !.selectedTheme = <<themeName>>]
    /\ lastApplied' = [background |-> colorThemes[themeName], reloaded |-> FALSE]
    /\ UNCHANGED <<sortVars, speed>>

\* Click on "Apply": the gradient of the three inputs goes to the body and the
\* previews, is stored as customGradient, and selectedTheme is removed.
ApplyCustomGradient ==
    /\ EventLoopFree
    /\ LET customGradient == InputGradient(colorInputs)
       IN  /\ background' = [body |-> customGradient,
                             currentThemePreview |-> customGradient,
                             gradientPreview |-> customGradient]
           /\ localStorage' = [selectedTheme |-> <<>>,
                               customGradient |-> <<customGradient>>]
           /\ lastApplied' = [background |-> customGradient, reloaded |-> FALSE]
    /\ UNCHANGED <<sortVars, speed, colorInputs>>

\* The user edits one of the three inputs: updateGradientPreview.
EditGradientInput(field, value) ==
    /\ EventLoopFree
    /\ colorInputs[field] # value
    /\ colorInputs' = [colorInputs EXCEPT ![field] = value]
    /\ background' = [background EXCEPT
                         !.gradientPreview = InputGradient(colorInputs')]
    /\ UNCHANGED <<sortVars, speed, localStorage, lastApplied>>

\* The user moves the speed slider (updateSpeedDisplay shows the value).
ChangeSpeed(ms) ==
    /\ EventLoopFree
    /\ speed # ms
    /\ speed' = ms
    /\ UNCHANGED <<sortVars, background, colorInputs, localStorage, lastApplied>>

\* The backgrounds and colour inputs loadSavedTheme leaves behind: the stored
\* custom gradient comes first, then the stored theme, then 'default'.
loadSavedTheme ==
    LET savedTheme     == localStorage.selectedTheme
        customGradient == localStorage.customGradient
    IN  IF customGradient # <<>>
        THEN /\ background' = [body |-> customGradient[1],
                               currentThemePreview |-> customGradient[1],
                               gradientPreview |-> customGradient[1]]
             /\ colorInputs' = [colorInputs EXCEPT
                                   !.startColor = matchColors(customGradient[1])[1],
                                   !.endColor = matchColors(customGradient[1])[2]]
             /\ UNCHANGED localStorage
        ELSE LET themeName == IF savedTheme # <<>> THEN savedTheme[1] ELSE "default"
             IN  /\ background' = changeThemeBackground(themeName)
                 /\ colorInputs' = changeThemeInputs(themeName)
                 /\ localStorage' = [localStorage EXCEPT
                                        !.selectedTheme = <<themeName>>]

\* The idle page is loaded again (window.onload): new bars for the count in
\* the input, which keeps its value as the colour direction and the slider
\* do, then initColorPicker's loadSavedTheme.
Reload ==
    /\ stack = <<>>
    /\ barCount # <<>>
    /\ container' \in GeneratedBars(barCount[1])
    /\ sortBtn' = [disabled |-> FALSE, textContent |-> "Sort"]
    /\ heights' = EmptyArray
    /\ bars' = EmptyArray
    /\ attached' = FALSE
    /\ marked' = EmptyArray
    /\ input' = EmptyArray
    /\ status' = "idle"
    /\ oob' = FALSE
    /\ trace' = <<>>
    /\ loadSavedTheme
    /\ lastApplied' = [lastApplied EXCEPT !.reloaded = TRUE]
    /\ UNCHANGED <<barCount, algorithm, stack, speed>>

\* ---------------------------------------------------------------- Next
\* every step of the running sort, timers included
Run ==
    \/ startSort_finish
    \/ startSort_catch
    \/ bubbleSort
    \/ selectionSort
    \/ insertionSort
    \/ quickSort
    \/ mergeSort
    \/ heapSort
    \/ shellSort

Next ==
    \/ \E alg \in Algorithms : StartSort(alg)
    \/ Run

Spec == Init /\ [][Next]_vars

\* The run together with the user events the page reacts to.
NextUI ==
    \/ \E alg \in Algorithms : Length(container) <= MaxBarsUI /\ StartSort(alg)
    \/ Run
    \/ \E v \in {<<>>} \cup {<<n>> : n \in 0..MaxBars} : TypeBarCount(v)
    \/ \E w \in (IF barCount = <<>> THEN ScreenWidths ELSE {MaxScreenWidth}) :
          GenerateBars(w)
    \/ \E w \in ScreenWidths : HandleResize(w)

SpecUI == Init /\ [][NextUI]_vars

\* The run with its timers: a pending timer fires, and a run that can go on
\* does (setTimeout and run-to-completion of the event loop).
SpecLive == Init /\ [][Next]_vars /\ WF_vars(Run)

\* Runs on bars of which some have no parseable height.
SpecNaN == InitNaN /\ [][Next]_vars

\* The values the #algorithm select can hand to startSort: the seven names
\* of the switch and a name that has no case.
AlgorithmNames == Algorithms \cup {"unknown"}

NextAny ==
    \/ \E alg \in AlgorithmNames : StartSort(alg)
    \/ Run

\* Runs started with any algorithm name.
SpecAny == Init /\ [][NextAny]_vars

\* Runs on the generated bars and on the bars of the taller page.
SpecScenario == InitScenario /\ [][Next]_vars

\* The idle page with its theme controls and reloads.
InitTheme == \E n \in 0..MaxBarsUI : \E b \in GeneratedBars(n) : InitFrom(n, b)

NextTheme ==
    \/ \E themeName \in ThemeNames : ChangeTheme(themeName)
    \/ ApplyCustomGradient
    \/ \E field \in {"startColor", "endColor"} : \E value \in PickedColors :
          EditGradientInput(field, value)
    \/ \E value \in Directions : EditGradientInput("gradientDirection", value)
    \/ Reload

SpecTheme == InitTheme /\ [][NextTheme]_vars

\* The page whose user has typed 1 into the bar count input after the bars
\* were generated.
InitDet ==
    \E n \in 0..(MaxBarsUI + 1) : \E b \in GeneratedBars(n) : InitFrom(1, b)

\* The run with the events of the page between its steps: the speed slider,
\* a preset theme, "Generate New Bars" while the input asks for few bars,
\* and a resize that finds about as many bars as the window has room for.
NextDet ==
    \/ \E alg \in Algorithms : StartSort(alg)
    \/ Run
    \/ \E ms \in Speeds : ChangeSpeed(ms)
    \/ ChangeTheme("ocean")
    \/ \E w \in ScreenWidths :
          /\ barCount # <<>>
          /\ barCount[1] <= MaxBarsUI
          /\ GenerateBars(w)
    \/ \E w \in ScreenWidths :
          /\ Abs(Length(container) - updateBarCountInput(w)) <= 2
          /\ HandleResize(w)

SpecDet == InitDet /\ [][NextDet]_vars

\* ------------------------------------------------------------ properties
Sorted(a) == \A x, y \in DOMAIN a : x < y => a[x] <= a[y]

Count(a, v) == Cardinality({k \in DOMAIN a : a[k] = v})

SameMultiset(a, b) ==
    /\ DOMAIN a = DOMAIN b
    /\ \A v \in {a[k] : k \in DOMAIN a} \cup {b[k] : k \in DOMAIN b} :
          Count(a, v) = Count(b, v)

RunEnded == status \in {"completed", "error"}

Suspended == status = "running" /\ EventLoopFree

\* C1: when a run of any of the seven algorithms has ended, the array
\* heights is in non-decreasing order.
C1_FinalSorted == RunEnded => Sorted(heights)

C1_Witness ==
    /\ status = "completed"
    /\ algorithm = "heap"
    /\ Length(input) >= 3
    /\ ~Sorted(input)
    /\ Sorted(heights)

\* C2: when a run of any of the seven algorithms has ended, heights holds
\* exactly the values of the input, each as often as the input does.
C2_FinalPermutation == RunEnded => SameMultiset(heights, input)

C2_Witness ==
    /\ status = "completed"
    /\ algorithm = "merge"
    /\ Length(input) >= 3
    /\ heights # input
    /\ SameMultiset(heights, input)

C5_BarsShowHeights ==
    ((Suspended \/ RunEnded) /\ attached) => (bars = heights /\ container = heights)

C5_Witness ==
    /\ Suspended
    /\ attached
    /\ algorithm = "bubble"
    /\ heights # input
    /\ bars = heights

\* C6 as stated: while a run is active the bars on display are the bars of
\* the run, with the heights the run gave them.
C6_NoInterference == status = "running" => (attached /\ container = bars)

\* C7: while startSort is active the Sort button is disabled and reads
\* "Sorting...", so that no click starts a second run; it is enabled again
\* only when no run is active.
C7_OneRunAtATime ==
    /\ stack # <<>> => (sortBtn.disabled /\ sortBtn.textContent = "Sorting...")
    /\ ~sortBtn.disabled => (stack = <<>> /\ status # "running")

C7_Witness ==
    /\ Suspended
    /\ sortBtn.disabled
    /\ Len(stack) >= 3

\* C8: with every pending timer firing, a started run ends and startSort
\* re-enables the Sort button with the text "Sort", also after an error.
C8_RunTerminates ==
    (status = "running")
        ~> (RunEnded /\ stack = <<>>
            /\ sortBtn = [disabled |-> FALSE, textContent |-> "Sort"])

C8_Witness ==
    /\ RunEnded
    /\ sortBtn = [disabled |-> FALSE, textContent |-> "Sort"]
    /\ algorithm = "shell"
    /\ Length(input) >= 4
    /\ heights # input

\* C9 as stated: no step of a run addresses heights or bars with an index
\* outside [0, N).
C9_IndicesInBounds == ~oob

\* C10: in bubble, selection, quick and heap sort the array at every await
\* is a permutation of the input (no swap is half done).
C10_PermutationAtAwait ==
    (Suspended /\ algorithm \in {"bubble", "selection", "quick", "heap"})
        => SameMultiset(heights, input)

C10_Witness ==
    /\ Suspended
    /\ algorithm = "quick"
    /\ heights # input
    /\ SameMultiset(heights, input)

\* a holds a NaN
HasNaN(a) == \E k \in DOMAIN a : a[k] = NaN

C12_UnknownAlgorithmFails == status = "completed" => algorithm \in Algorithms

\* C13: a run on an empty array completes with an empty trace, and a run on
\* one value emits MarkFinal(0) and nothing else and leaves the value alone.
C13_BoundaryInputs ==
    (RunEnded /\ Length(input) <= 1) =>
        /\ status = "completed"
        /\ heights = input
        /\ trace = IF Length(input) = 0 THEN <<>> ELSE <<MarkFinal(0)>>

\* C14: on an input that is already in non-decreasing order, the array
\* equals the input in every state of the run, whatever the algorithm.
C14_SortedInputUnchanged ==
    (status # "idle" /\ Sorted(input)) => heights = input

\* C14, amended: the same for the six algorithms other than heap sort,
\* whose first phase turns the sorted array into a max-heap.
C14_SortedInputUnchangedButHeap ==
    (status # "idle" /\ Sorted(input) /\ algorithm # "heap") => heights = input

C14_Witness ==
    /\ status = "completed"
    /\ algorithm = "quick"
    /\ Sorted(input)
    /\ Length(input) >= 3
    /\ input[0] < input[Length(input) - 1]
    /\ \E k \in 1..Len(trace) : trace[k][1] = "Swap"

\* The step at position k of trace' is a Swap of two distinct indices that
\* this transition performs.
NewSwap(k) ==
    /\ k > Len(trace)
    /\ trace'[k][1] = "Swap"
    /\ trace'[k][2] # trace'[k][3]

\* The running function is heapSort itself (its extraction loop).
InHeapSort == IF stack = <<>> THEN FALSE ELSE top.fn = "heapSort"

\* C15: a Swap of two distinct indices is performed only when the two
\* values differ, in every algorithm.
C15_NoSuperfluousSwap ==
    [][\A k \in 1..Len(trace') :
          NewSwap(k) => heights[trace'[k][2]] # heights[trace'[k][3]]]_vars

\* C15, amended: the same for every swap but the one of heapSort's
\* extraction loop, which exchanges slot 0 and slot i without a test.
C15_NoSuperfluousSwapButExtraction ==
    [][\A k \in 1..Len(trace') :
          (NewSwap(k) /\ ~InHeapSort)
              => heights[trace'[k][2]] # heights[trace'[k][3]]]_vars

C15_Witness ==
    /\ status = "completed"
    /\ algorithm = "quick"
    /\ \E x, y \in DOMAIN input : x # y /\ input[x] = input[y]
    /\ \E k \in 1..Len(trace) : trace[k][1] = "Swap" /\ trace[k][2] # trace[k][3]

\* all the values of a are the same
AllEqual(a) == \A x, y \in DOMAIN a : a[x] = a[y]

\* C16: on an input whose values are all equal, the array equals the input
\* in every state of the run, whatever the algorithm.
C16_AllEqualUnchanged ==
    (status # "idle" /\ AllEqual(input)) => heights = input

C16_Witness ==
    /\ status = "completed"
    /\ algorithm = "heap"
    /\ AllEqual(input)
    /\ Length(input) >= 3
    /\ \E k \in 1..Len(trace) : trace[k][1] = "Swap" /\ trace[k][2] # trace[k][3]

\* MarkFinal(0), ..., MarkFinal(n - 1)
MarkAll(n) == [k \in 1..n |-> MarkFinal(k - 1)]

\* The comparisons and swaps of bubble sort on a from pass i, position j on:
\* Compare(j, j+1), then Swap(j, j+1) exactly when a[j] > a[j+1].
RECURSIVE BubbleSteps(_, _, _)
BubbleSteps(a, i, j) ==
    IF i >= Length(a) THEN <<>>
    ELSE IF j > Length(a) - i - 2 THEN BubbleSteps(a, i + 1, 0)
    ELSE IF a[j] > a[j + 1]
         THEN <<Compare(j, j + 1), Swap(j, j + 1)>>
                  \o BubbleSteps(Swapped(a, j, j + 1), i, j + 1)
         ELSE <<Compare(j, j + 1)>> \o BubbleSteps(a, i, j + 1)

BubbleTrace(a) == BubbleSteps(a, 0, 0) \o MarkAll(Length(a))

IsPrefix(s, t) == Len(s) <= Len(t) /\ s = SubSeq(t, 1, Len(s))

\* C17: the trace of a bubble sort run grows along the sequence of passes
\* i = 0..N-1, j = 0..N-i-2 with Compare(j,j+1) and Swap(j,j+1) exactly when
\* a[j] > a[j+1], followed by MarkFinal(0..N-1); on [5,3,8,1] the finished
\* run has the trace of the scenario and the array [1,3,5,8].
C17_BubbleTrace ==
    (algorithm = "bubble" /\ status # "idle") =>
        /\ IsPrefix(trace, BubbleTrace(input))
        /\ status = "completed" => trace = BubbleTrace(input)
        /\ (status = "completed" /\ input = FromSeq(<<5, 3, 8, 1>>)) =>
              /\ trace = <<Compare(0, 1), Swap(0, 1), Compare(1, 2),
                           Compare(2, 3), Swap(2, 3), Compare(0, 1),
                           Compare(1, 2), Swap(1, 2), Compare(0, 1),
                           Swap(0, 1)>> \o MarkAll(4)
              /\ heights = FromSeq(<<1, 3, 5, 8>>)

C17_Witness ==
    /\ algorithm = "bubble"
    /\ status = "completed"
    /\ input = FromSeq(<<5, 3, 8, 1>>)

StrictlyDecreasing(a) == \A x, y \in DOMAIN a : x < y => a[x] > a[y]

\* the number of Compare steps of the trace t
Comparisons(t) == Cardinality({k \in 1..Len(t) : t[k][1] = "Compare"})

\* C18: a finished quick sort run on a strictly decreasing input of length N
\* has performed N(N-1)/2 comparisons, each of an index with the pivot's
\* index above it; on [9,7,5,3,1] they are 10.
C18_QuickSortWorstCase ==
    (algorithm = "quick" /\ status = "completed" /\ StrictlyDecreasing(input)) =>
        /\ Comparisons(trace) = (Length(input) * (Length(input) - 1)) \div 2
        /\ \A k \in 1..Len(trace) :
              trace[k][1] = "Compare" => trace[k][2] < trace[k][3]
        /\ input = FromSeq(<<9, 7, 5, 3, 1>>) => Comparisons(trace) = 10

C18_Witness ==
    /\ algorithm = "quick"
    /\ status = "completed"
    /\ input = FromSeq(<<9, 7, 5, 3, 1>>)
    /\ Comparisons(trace) = 10

\* C20: once the page has been loaded again, its background is the one the
\* most recent changeTheme or applyCustomGradient applied.
C20_ThemeRestored == lastApplied.reloaded => background.body = lastApplied.background

\* ------------------------------------------------- runs as functions
\* The steps of each algorithm as a function of the array alone: what a run
\* emits if nothing but the algorithm decides its steps. Each operator
\* yields [a |-> the array afterwards, t |-> the steps].
Result(a, t) == [a |-> a, t |-> t]

RECURSIVE SelectionScan(_, _, _)
SelectionScan(a, j, minIndex) ==
    IF j >= Length(a) THEN [minIndex |-> minIndex, t |-> <<>>]
    ELSE LET r == SelectionScan(a, j + 1, IF a[j] < a[minIndex] THEN j ELSE minIndex)
         IN  [minIndex |-> r.minIndex, t |-> <<Compare(j, minIndex)>> \o r.t]

RECURSIVE SelectionSteps(_, _)
SelectionSteps(a, i) ==
    IF i >= Length(a) THEN <<>>
    ELSE LET r == SelectionScan(a, i + 1, i)
         IN  IF r.minIndex # i
             THEN r.t \o <<Swap(i, r.minIndex), MarkFinal(i)>>
                      \o SelectionSteps(Swapped(a, i, r.minIndex), i + 1)
             ELSE r.t \o <<MarkFinal(i)>> \o SelectionSteps(a, i + 1)

RECURSIVE InsertionShift(_, _, _, _)
InsertionShift(a, i, j, currentHeight) ==
    IF j < 0
    THEN Result([a EXCEPT ![0] = currentHeight],
                <<Overwrite(0, currentHeight), MarkFinal(0)>>)
    ELSE IF a[j] > currentHeight
    THEN LET r == InsertionShift([a EXCEPT ![j + 1] = a[j]], i, j - 1, currentHeight)
         IN  Result(r.a, <<Compare(j, i), Overwrite(j + 1, a[j])>> \o r.t)
    ELSE Result([a EXCEPT ![j + 1] = currentHeight],
                <<Compare(j, i), Overwrite(j + 1, currentHeight), MarkFinal(j + 1)>>)

RECURSIVE InsertionSteps(_, _)
InsertionSteps(a, i) ==
    IF i >= Length(a) THEN <<>>
    ELSE LET r == InsertionShift(a, i, i - 1, a[i])
         IN  r.t \o InsertionSteps(r.a, i + 1)

RECURSIVE PartitionScan(_, _, _, _)
PartitionScan(a, high, i, j) ==
    IF j >= high THEN [a |-> a, i |-> i, t |-> <<>>]
    ELSE LET i2 == IF a[j] <= a[high] THEN i + 1 ELSE i
             sw == a[j] <= a[high] /\ i2 # j
             r  == PartitionScan(IF sw THEN Swapped(a, i2, j) ELSE a, high, i2, j + 1)
         IN  [a |-> r.a, i |-> r.i,
              t |-> <<Compare(j, high)>> \o (IF sw THEN <<Swap(i2, j)>> ELSE <<>>) \o r.t]

RECURSIVE QuickRun(_, _, _)
QuickRun(a, low, high) ==
    IF low < high
    THEN LET p  == PartitionScan(a, high, low - 1, low)
             pi == p.i + 1
             l  == QuickRun(Swapped(p.a, pi, high), low, pi - 1)
             r  == QuickRun(l.a, pi + 1, high)
         IN  Result(r.a, p.t \o <<Swap(pi, high), MarkFinal(pi)>> \o l.t \o r.t)
    ELSE Result(a, <<>>)

RECURSIVE MergeFill(_, _, _, _, _, _, _, _)
MergeFill(a, leftArray, rightArray, i, j, k, left, mid) ==
    IF i < Length(leftArray) /\ j < Length(rightArray)
    THEN IF leftArray[i] <= rightArray[j]
         THEN LET r == MergeFill([a EXCEPT ![k] = leftArray[i]], leftArray,
                                 rightArray, i + 1, j, k + 1, left, mid)
              IN  Result(r.a, <<Compare(left + i, mid + 1 + j),
                                Overwrite(k, leftArray[i]), MarkFinal(k)>> \o r.t)
         ELSE LET r == MergeFill([a EXCEPT ![k] = rightArray[j]], leftArray,
                                 rightArray, i, j + 1, k + 1, left, mid)
              IN  Result(r.a, <<Compare(left + i, mid + 1 + j),
                                Overwrite(k, rightArray[j]), MarkFinal(k)>> \o r.t)
    ELSE IF i < Length(leftArray)
    THEN LET r == MergeFill([a EXCEPT ![k] = leftArray[i]], leftArray,
                            rightArray, i + 1, j, k + 1, left, mid)
         IN  Result(r.a, <<Overwrite(k, leftArray[i]), MarkFinal(k)>> \o r.t)
    ELSE IF j < Length(rightArray)
    THEN LET r == MergeFill([a EXCEPT ![k] = rightArray[j]], leftArray,
                            rightArray, i, j + 1, k + 1, left, mid)
         IN  Result(r.a, <<Overwrite(k, rightArray[j]), MarkFinal(k)>> \o r.t)
    ELSE Result(a, <<>>)

RECURSIVE MergeRun(_, _, _)
MergeRun(a, left, right) ==
    IF left < right
    THEN LET mid == (left + right) \div 2
             l   == MergeRun(a, left, mid)
             r   == MergeRun(l.a, mid + 1, right)
             m   == MergeFill(r.a, slice(r.a, left, mid + 1),
                              slice(r.a, mid + 1, right + 1), 0, 0, left, left, mid)
         IN  Result(m.a, l.t \o r.t \o m.t)
    ELSE Result(a, <<>>)

RECURSIVE HeapifyRun(_, _, _)
HeapifyRun(a, n, i) ==
    LET left    == 2 * i + 1
        right   == 2 * i + 2
        l1      == IF left < n /\ a[left] > a[i] THEN left ELSE i
        largest == IF right < n /\ a[right] > a[l1] THEN right ELSE l1
        t0      == (IF left < n THEN <<Compare(left, i)>> ELSE <<>>)
                   \o (IF right < n THEN <<Compare(right, l1)>> ELSE <<>>)
    IN  IF largest # i
        THEN LET r == HeapifyRun(Swapped(a, i, largest), n, largest)
             IN  Result(r.a, t0 \o <<Swap(i, largest)>> \o r.t)
        ELSE Result(a, t0)

RECURSIVE HeapBuild(_, _)
HeapBuild(a, i) ==
    IF i < 0 THEN Result(a, <<>>)
    ELSE LET h == HeapifyRun(a, Length(a), i)
             r == HeapBuild(h.a, i - 1)
         IN  Result(r.a, h.t \o r.t)

RECURSIVE HeapExtract(_, _)
HeapExtract(a, i) ==
    IF i > 0
    THEN LET h == HeapifyRun(Swapped(a, 0, i), i, 0)
             r == HeapExtract(h.a, i - 1)
         IN  Result(r.a, <<Swap(0, i), MarkFinal(i)>> \o h.t \o r.t)
    ELSE Result(a, IF Length(a) > 0 THEN <<MarkFinal(0)>> ELSE <<>>)

RECURSIVE ShellShift(_, _, _, _, _)
ShellShift(a, gap, i, j, temp) ==
    IF j < gap
    THEN Result([a EXCEPT ![j] = temp], <<Overwrite(j, temp)>>)
    ELSE IF a[j - gap] > temp
    THEN LET r == ShellShift([a EXCEPT ![j] = a[j - gap]], gap, i, j - gap, temp)
         IN  Result(r.a, <<Compare(j - gap, i), Overwrite(j, a[j - gap])>> \o r.t)
    ELSE Result([a EXCEPT ![j] = temp], <<Compare(j - gap, i), Overwrite(j, temp)>>)

RECURSIVE ShellPass(_, _, _)
ShellPass(a, gap, i) ==
    IF i >= Length(a) THEN Result(a, <<>>)
    ELSE LET s == ShellShift(a, gap, i, i, a[i])
             r == ShellPass(s.a, gap, i + 1)
         IN  Result(r.a, s.t \o r.t)

RECURSIVE ShellGaps(_, _)
ShellGaps(a, gap) ==
    IF gap <= 0 THEN Result(a, <<>>)
    ELSE LET p == ShellPass(a, gap, gap)
             r == ShellGaps(p.a, gap \div 2)
         IN  Result(r.a, p.t \o r.t)

\* the steps of a whole run of the algorithm alg on the array a
RunTrace(alg, a) ==
    CASE alg = "bubble"    -> BubbleTrace(a)
      [] alg = "selection" -> SelectionSteps(a, 0)
      [] alg = "insertion" -> InsertionSteps(a, 1)
      [] alg = "quick"     -> QuickRun(a, 0, Length(a) - 1).t
      [] alg = "merge"     -> MergeRun(a, 0, Length(a) - 1).t
      [] alg = "heap"      ->
            LET b == HeapBuild(a, (Length(a) \div 2) - 1)
            IN  b.t \o HeapExtract(b.a, Length(a) - 1).t
      [] alg = "shell"     -> ShellGaps(a, Length(a) \div 2).t \o MarkAll(Length(a))

\* the array a after the steps t: a Swap exchanges two slots, an Overwrite
\* stores its value
RECURSIVE ApplySteps(_, _)
ApplySteps(a, t) ==
    IF t = <<>> THEN a
    ELSE LET s == Head(t)
         IN  ApplySteps(IF s[1] = "Swap" THEN Swapped(a, s[2], s[3])
                        ELSE IF s[1] = "Overwrite" THEN [a EXCEPT ![s[2]] = s[3]]
                        ELSE a,
                        Tail(t))

\* C19: the steps of a run and its array are a function of the algorithm
\* and of the input alone, whatever the speed read at each step and
\* whatever events of the page come between the steps: the trace is a prefix
\* of RunTrace(algorithm, input), the whole of it when the run has ended,
\* and the array is the input after the steps of the trace.
C19_Deterministic ==
    status # "idle" =>
        /\ IsPrefix(trace, RunTrace(algorithm, input))
        /\ RunEnded => trace = RunTrace(algorithm, input)
        /\ heights = ApplySteps(input, trace)

C19_Witness ==
    /\ status = "completed"
    /\ ~attached
    /\ getSpeed = MaxSpeed
    /\ lastApplied.background # colorThemes["default"]
    /\ Len(trace) > Length(input)
    /\ input # heights

\* the bar counts the page promises
BarCountRange == 5..100

\* C21: updateBarCountInput yields a count in [5,100] for every screen
\* width, and every generateBars call leaves between 5 and 100 bars in the
\* container, whatever the bar count input holds.
C21_BarCountInRange ==
    [][/\ \A w \in 0..MaxScreenWidth : updateBarCountInput(w) \in BarCountRange
       /\ (\E w \in ScreenWidths : GenerateBars(w))
              => Length(container') \in BarCountRange]_vars

\* ------------------------------------------------ per-algorithm claims
\* the indices of heights the step s writes
Written(s) ==
    IF s[1] = "Swap" THEN {s[2], s[3]}
    ELSE IF s[1] = "Overwrite" THEN {s[2]}
    ELSE {}

\* the array after the first k steps of the run
ArrayAt(k) == ApplySteps(input, SubSeq(trace, 1, k))

\* a[from..to] is in non-decreasing order
SortedRange(a, from, to) ==
    \A x, y \in from..to : x < y => a[x] <= a[y]

\* no step of the trace after position k writes an index of the set s
NotWrittenAfter(k, s) ==
    \A l \in (k + 1)..Len(trace) : Written(trace[l]) \cap s = {}

\* C22: selection sort swaps i and minIndex only when they differ; when
\* MarkFinal(i) is emitted a[0..i] is non-decreasing, every value of a[0..i]
\* is <= every value of a[i+1..N-1], and no index of 0..i is written again.
C22_SelectionSort ==
    (algorithm = "selection" /\ status # "idle") =>
        \A k \in 1..Len(trace) :
            /\ trace[k][1] = "Swap" => trace[k][2] # trace[k][3]
            /\ trace[k][1] = "MarkFinal" =>
                  LET i == trace[k][2]
                      a == ArrayAt(k)
                  IN  /\ SortedRange(a, 0, i)
                      /\ \A x \in 0..i : \A y \in (i + 1)..(Length(a) - 1) :
                            a[x] <= a[y]
                      /\ NotWrittenAfter(k, 0..i)

C22_Witness ==
    /\ algorithm = "selection"
    /\ status = "completed"
    /\ Length(input) >= 3
    /\ Cardinality({k \in 1..Len(trace) : trace[k][1] = "Swap"}) >= 2
    /\ Cardinality({k \in 1..Len(trace) : trace[k][1] = "MarkFinal"}) = Length(input)

\* the position of the last MarkFinal before position k of the trace, or 0
LastMarkBefore(k) ==
    LET s == {l \in 1..(k - 1) : trace[l][1] = "MarkFinal"}
    IN  IF s = {} THEN 0 ELSE CHOOSE l \in s : \A m \in s : m <= l

\* C23: the steps of one partition(low, high) call are Compare(low, high),
\* ..., Swap(p, high), MarkFinal(p). At its MarkFinal(p): low <= p <= high,
\* a[low..p-1] <= a[p] < a[p+1..high], the call has written no index outside
\* [low, high], and a[p] is not written again in the run.
C23_PartitionPostcondition ==
    (algorithm = "quick" /\ status # "idle") =>
        \A k \in 1..Len(trace) :
            trace[k][1] = "MarkFinal" =>
                LET first == LastMarkBefore(k) + 1
                    low   == trace[first][2]
                    high  == trace[first][3]
                    p     == trace[k][2]
                    a     == ArrayAt(k)
                IN  /\ trace[first][1] = "Compare"
                    /\ low <= p /\ p <= high
                    /\ \A x \in low..(p - 1) : a[x] <= a[p]
                    /\ \A x \in (p + 1)..high : a[x] > a[p]
                    /\ \A l \in first..k : Written(trace[l]) \subseteq low..high
                    /\ NotWrittenAfter(k, {p})

C23_Witness ==
    /\ algorithm = "quick"
    /\ status = "completed"
    /\ Length(input) >= 4
    /\ \E k \in 1..Len(trace) :
          /\ trace[k][1] = "MarkFinal"
          /\ trace[k][2] > 0
          /\ trace[k][2] < Length(input) - 1
          /\ LastMarkBefore(k) = 0
    /\ \E k \in 1..Len(trace) : trace[k][1] = "Swap" /\ trace[k][2] # trace[k][3]

\* a[0..n-1] is a max-heap: no parent is below one of its children
MaxHeap(a, n) ==
    \A p \in 0..(n - 1) :
        /\ 2 * p + 1 < n => a[p] >= a[2 * p + 1]
        /\ 2 * p + 2 < n => a[p] >= a[2 * p + 2]

\* heapSort is the running function and stands at the program point pc
HeapSortAt(pc) ==
    IF stack = <<>> THEN FALSE ELSE top.fn = "heapSort" /\ top.pc = pc

\* C24: when the build loop of heap sort has ended the whole array is a
\* max-heap; when an extraction has left heap size i, a[0..i-1] is a max-heap
\* and a[i..N-1] is non-decreasing and holds the N-i largest values; and
\* once MarkFinal(i) is emitted no index of i..N-1 is written again.
C24_HeapSort ==
    (algorithm = "heap" /\ status # "idle") =>
        /\ HeapSortAt("extract") => MaxHeap(heights, Length(heights))
        /\ HeapSortAt("extractNext") =>
              /\ MaxHeap(heights, top.i)
              /\ SortedRange(heights, top.i, Length(heights) - 1)
              /\ \A x \in 0..(top.i - 1) : \A y \in top.i..(Length(heights) - 1) :
                    heights[x] <= heights[y]
        /\ \A k \in 1..Len(trace) :
              trace[k][1] = "MarkFinal" =>
                  NotWrittenAfter(k, trace[k][2]..(Length(heights) - 1))

C24_Witness ==
    /\ algorithm = "heap"
    /\ HeapSortAt("extractNext")
    /\ top.i = 2
    /\ Length(input) >= 4
    /\ ~Sorted(input)
    /\ ~Sorted(heights)

\* the array a followed by the array b
Concat(a, b) ==
    [k \in 0..(Length(a) + Length(b) - 1) |->
        IF k < Length(a) THEN a[k] ELSE b[k - Length(a)]]

\* the steps this transition adds to the trace
NewSteps == SubSeq(trace', Len(trace) + 1, Len(trace'))

\* the running function is fn
Running(fn) == IF stack = <<>> THEN FALSE ELSE top.fn = fn

\* mergeSortHelper is about to call merge(left, mid, right)
MergeCalled ==
    IF stack = <<>> THEN FALSE ELSE top.fn = "mergeSortHelper" /\ top.pc = "merge"

\* C25: a merge(left, mid, right) call starts at k = left with copies of
\* a[left..right]; each of its steps either writes nothing or writes slot k
\* alone, left <= k <= right, as Overwrite(k, v) immediately followed by
\* MarkFinal(k), and moves k up by one; it returns at k = right + 1 with
\* a[left..right] non-decreasing and a permutation of the copies.
C25_Merge ==
    [][/\ MergeCalled =>
             /\ top'.fn = "merge"
             /\ top'.left = top.left /\ top'.right = top.right
             /\ top'.k = top.left
             /\ Concat(top'.leftArray, top'.rightArray)
                    = slice(heights, top.left, top.right + 1)
       /\ Running("merge") =>
             /\ \A x \in DOMAIN heights : x # top.k => heights'[x] = heights[x]
             /\ IF NewSteps = <<>>
                THEN /\ heights' = heights
                     /\ Len(stack') = Len(stack) => top'.k = top.k
                ELSE /\ top.left <= top.k /\ top.k <= top.right
                     /\ Len(NewSteps) \in {2, 3}
                     /\ Len(NewSteps) = 3 => NewSteps[1][1] = "Compare"
                     /\ NewSteps[Len(NewSteps) - 1] = Overwrite(top.k, heights'[top.k])
                     /\ NewSteps[Len(NewSteps)] = MarkFinal(top.k)
                     /\ Len(stack') = Len(stack) /\ top'.k = top.k + 1
             /\ Len(stack') < Len(stack) =>
                   /\ top.k = top.right + 1
                   /\ SortedRange(heights, top.left, top.right)
                   /\ SameMultiset(slice(heights, top.left, top.right + 1),
                                   Concat(top.leftArray, top.rightArray))]_vars

C25_Witness ==
    /\ algorithm = "merge"
    /\ status = "completed"
    /\ Length(input) >= 4
    /\ \E k \in 1..Len(trace) :
          trace[k][1] = "MarkFinal" /\ ~Sorted(ArrayAt(k))

\* the number of MarkFinal steps of the trace
Marks == Cardinality({k \in 1..Len(trace) : trace[k][1] = "MarkFinal"})

\* the comparisons and writes of all the passes of the run: for shell sort
\* those of the gaps floor(N/2), floor(N/4), ..., 1
AllPasses ==
    IF algorithm = "bubble" THEN BubbleSteps(input, 0, 0)
    ELSE ShellGaps(input, Length(input) \div 2).t

\* C26: in bubble sort and in shell sort the MarkFinal steps are the last
\* steps of the trace, for the indices 0, 1, ... in increasing order, and the
\* first of them comes when all the passes (for shell sort the pass of gap 1
\* included) have been made; a finished run has marked 0..N-1.
C26_MarksAfterAllPasses ==
    (algorithm \in {"bubble", "shell"} /\ status # "idle") =>
        /\ SubSeq(trace, Len(trace) - Marks + 1, Len(trace)) = MarkAll(Marks)
        /\ Marks > 0 => SubSeq(trace, 1, Len(trace) - Marks) = AllPasses
        /\ status = "completed" => Marks = Length(input)

C26_Witness ==
    /\ algorithm = "shell"
    /\ status = "completed"
    /\ Length(input) >= 4
    /\ Marks = Length(input)
    /\ \E k \in 1..Len(trace) :
          trace[k][1] = "Overwrite" /\ ArrayAt(k) # ArrayAt(k - 1)

\* insertionSort is inside the outer iteration of its frame's i
InIteration ==
    IF stack = <<>> THEN FALSE
    ELSE top.fn = "insertionSort" /\ top.pc \in {"while", "await"}

\* C27: a step of insertion sort's outer iteration i, 1 <= i <= N-1, writes
\* only indices of 0..i and leaves a[i+1..N-1] as it was in the input; the
\* step that ends the iteration, with Overwrite(j+1, current), leaves a[0..i]
\* non-decreasing and a permutation of the input's a[0..i]; the shift
\* Overwrite(j+1, a[j]) is made only with a[j] > current.
C27_InsertionSort ==
    [][InIteration =>
          LET i == top.i
              j == top.j
          IN  /\ i \in 1..(Length(heights) - 1)
              /\ \A k \in 1..Len(NewSteps) : Written(NewSteps[k]) \subseteq 0..i
              /\ \A x \in (i + 1)..(Length(heights) - 1) :
                    heights[x] = input[x] /\ heights'[x] = heights[x]
              /\ (top.pc = "while" /\ top'.pc = "outer") =>
                    /\ NewSteps[Len(NewSteps) - 1]
                           = Overwrite(j + 1, top.currentHeight)
                    /\ SortedRange(heights', 0, i)
                    /\ SameMultiset(slice(heights', 0, i + 1),
                                    slice(input, 0, i + 1))
              /\ (top.pc = "await" /\ top'.pc = "while") =>
                    /\ NewSteps = <<Overwrite(j + 1, heights[j])>>
                    /\ heights[j] > top.currentHeight
              /\ (\E k \in 1..Len(NewSteps) : NewSteps[k][1] = "Overwrite") =>
                    \/ top.pc = "while" /\ top'.pc = "outer"
                    \/ top.pc = "await" /\ top'.pc = "while"]_vars

C27_Witness ==
    /\ algorithm = "insertion"
    /\ status = "completed"
    /\ Length(input) >= 3
    /\ ~Sorted(input)
    /\ \E k \in 2..Len(trace) :
          /\ trace[k][1] = "Overwrite" /\ trace[k - 1][1] = "Overwrite"
          /\ trace[k][2] + 1 = trace[k - 1][2]

====
